---- MODULE Spec2Model ----
(***************************************************************************)
(* Model of domain-checker.py: DomainManager (discovery, resolution, HTTP  *)
(* status sampling, file output) and DomainStatusChecker (the thread pool  *)
(* of check_single_domain tasks, the marker-file probe, the sampling merge *)
(* and save_results), driven by main().                                    *)
(***************************************************************************)
EXTENDS Integers, Sequences, FiniteSets, TLC

\* ------------------------------------------------------------------ bounds
MaxDomains == 2          \* longest discovered domain list explored
CpuCount == 1            \* multiprocessing.cpu_count() of the host

\* ------------------------------------------------------- values of the run
None == "None"                                \* Python's None
Names == {"a.example", "b.example"}           \* domain names a panel may list
HostIP == "10.0.0.5"                          \* gethostbyname(gethostname())
IPs == {"10.0.0.5", "203.0.113.9"}            \* addresses a name may resolve to
Roots == {"/home/u1/public_html", "/home/u2/public_html", "/home/u3/gone"}
ExistingRoots == {"/home/u1/public_html", "/home/u2/public_html"}
PanelTypes == {"cpanel", "directadmin", "unknown"}
StatusCodes == {200, 404}
Artifacts == {"mismatched_domains.txt", "healthy_domains.txt",
              "direct_domains.txt", "no_ping_domains.txt",
              "combined_domains.txt", "domain_report.html"}

VARIABLES
    pc,                  \* position of main()
    exit_status,         \* process exit status, -1 while running
    server_ip,           \* DomainManager.server_ip
    domains,             \* DomainManager.domains
    domain_paths,        \* DomainManager.domain_paths
    task,                \* one check_single_domain future per entry of domains
    markers,             \* document roots that hold a mismatch.txt file
    direct_domains, healthy_domains, mismatched_domains, no_ping_domains,
    domain_statuses,     \* DomainStatusChecker.domain_statuses
    tasks,               \* check_domain_statuses: the domains being sampled
    returned,            \* what check_status returned for each sampling task
    responses,           \* the response each sampling task got from its GET
    results,             \* check_domain_statuses: results, in completion order
    files,               \* content of each output artifact
    error_log            \* messages written to error_logger by main/check_domains

vars == <<pc, exit_status, server_ip, domains, domain_paths, task, markers,
          direct_domains, healthy_domains, mismatched_domains, no_ping_domains,
          domain_statuses, tasks, returned, responses, results, files, error_log>>

lists == <<direct_domains, healthy_domains, mismatched_domains, no_ping_domains,
           domain_statuses>>
discovery == <<server_ip, domains, domain_paths>>
sampling == <<tasks, returned, responses, results>>

\* ----------------------------------------------------------------- helpers
SeqsUpTo(S, n) == UNION {[1..k -> S] : k \in 0..n}

Range(s) == {s[i] : i \in 1..Len(s)}

Count(s, x) == Cardinality({i \in 1..Len(s) : s[i] = x})

max_workers == IF CpuCount > 2 THEN CpuCount ELSE 2

\* get_domain_path: the path of the first pair whose name is the domain
get_domain_path(paths, domain) ==
    IF \E i \in 1..Len(paths) : paths[i][1] = domain
    THEN paths[CHOOSE i \in 1..Len(paths) :
                 /\ paths[i][1] = domain
                 /\ \A j \in 1..(i-1) : paths[j][1] # domain][2]
    ELSE None

\* get_domains: what discovery leaves in (domains, domain_paths) for a panel
\* type, the names it lists, the path found for each entry and whether the
\* enumeration ran to its end
get_domains(panel, names, path, ok) ==
    CASE panel = "cpanel" ->
            IF ok THEN [domains |-> names,
                        domain_paths |-> [i \in 1..Len(names) |-> <<names[i], path[i]>>]]
                  ELSE [domains |-> <<>>, domain_paths |-> <<>>]
      [] panel = "directadmin" ->
            IF ok THEN [domains |-> names,
                        domain_paths |-> [i \in 1..Len(names) |-> <<names[i], path[i]>>]]
                  ELSE [domains |-> names, domain_paths |-> <<>>]
      [] OTHER -> [domains |-> <<>>, domain_paths |-> <<>>]

\* the paths a panel can report for the names it lists
PanelPaths(panel, names) ==
    CASE panel = "cpanel" ->
            \* get_cpanel_domain_path depends on the name alone
            {p \in [1..Len(names) -> Roots \cup {None}] :
                \A i, j \in 1..Len(names) : names[i] = names[j] => p[i] = p[j]}
      [] panel = "directadmin" -> [1..Len(names) -> Roots]
      [] OTHER -> {[i \in 1..Len(names) |-> None]}

NewTask == [pc |-> "queued", dns |-> "pending", ip |-> None, probed |-> FALSE, wrote |-> FALSE,
            rc |-> -1, res |-> None, cls |-> None,
            resolves |-> 0,      \* calls of get_domain_ip made for this entry
            probes |-> 0,        \* calls of save_file_and_upload made for this entry
            delfail |-> FALSE]   \* an os.remove of this task failed on a file that exists

NoFile == [state |-> "absent", content |-> <<>>]

Init ==
    /\ pc = "construct"
    /\ exit_status = -1
    /\ server_ip = None
    /\ domains = <<>>
    /\ domain_paths = <<>>
    /\ task = <<>>
    /\ markers = {}
    /\ direct_domains = <<>>
    /\ healthy_domains = <<>>
    /\ mismatched_domains = <<>>
    /\ no_ping_domains = <<>>
    /\ domain_statuses = <<>>
    /\ tasks = <<>>
    /\ returned = <<>>
    /\ responses = <<>>
    /\ results = <<>>
    /\ files = [f \in Artifacts |-> NoFile]
    /\ error_log = {}

\* DomainManager(): get_server_ip, check_control_panel, get_domains
Construct ==
    /\ pc = "construct"
    /\ \/ \* socket.gethostbyname(hostname) raises: nothing catches it
          /\ pc' = "exit"
          /\ exit_status' = 1
          /\ UNCHANGED discovery
       \/ \E panel \in PanelTypes, names \in SeqsUpTo(Names, MaxDomains), ok \in BOOLEAN :
            \E path \in PanelPaths(panel, names) :
              LET d == get_domains(panel, names, path, ok) IN
              /\ server_ip' = HostIP
              /\ domains' = d.domains
              /\ domain_paths' = d.domain_paths
              /\ pc' = "main"
              /\ UNCHANGED exit_status
    /\ UNCHANGED <<task, markers, lists, sampling, files, error_log>>

\* main(): leave early when discovery produced no (domain, path) pair, else
\* build the DomainStatusChecker and submit one future per entry of domains
MainCheck ==
    /\ pc = "main"
    /\ IF domain_paths = <<>>
       THEN /\ error_log' = error_log \cup {"No domains were found."}
            /\ pc' = "exit"
            /\ exit_status' = 0          \* plain return from main()
            /\ UNCHANGED task
       ELSE /\ task' = [i \in 1..Len(domains) |-> NewTask]
            /\ pc' = "verify"
            /\ UNCHANGED <<exit_status, error_log>>
    /\ UNCHANGED <<discovery, markers, lists, sampling, files>>

\* ----------------------------------------------- check_single_domain tasks
Running == {i \in DOMAIN task : task[i].pc \notin {"queued", "done", "raised"}}

Finished(i) == task[i].pc \in {"done", "raised"}

\* classify without the comparison with the server address
classify_no_direct(domain_ip, srv) ==
    IF domain_ip # None THEN "probe" ELSE "No Ping"

\* classify without the test that the name resolved
classify_no_none(domain_ip, srv) ==
    IF domain_ip = srv THEN "Direct" ELSE "probe"

\* the branch check_single_domain takes on the resolved address
classify(domain_ip, srv) ==
    IF domain_ip # None
    THEN IF domain_ip = srv THEN "Direct" ELSE "probe"
    ELSE "No Ping"

\* the document root the probe of task i works in
RootOf(i) == get_domain_path(domain_paths, domains[i])

\* the record appended to domain_statuses for a classification
status_tuple(domain, cls, domain_ip) ==
    IF cls = "No Ping" THEN <<domain, "No Ping", None, None>>
                       ELSE <<domain, cls, domain_ip, None>>

\* an error leaves check_single_domain and the task is queued again
raise_out_retry(t, i) == [t EXCEPT ![i].pc = "queued"]

\* an error leaves check_single_domain: the future holds the exception
raise_out(t, i) == [t EXCEPT ![i].pc = "raised"]

\* a worker thread takes the next queued future and runs it up to its first
\* blocking step after name resolution
Resolve(i) ==
    /\ pc = "verify"
    /\ task[i].pc = "queued"
    /\ \A j \in 1..(i-1) : task[j].pc # "queued"
    /\ Cardinality(Running) < max_workers
    /\ \/ \* gethostbyname raises something other than socket.gaierror
          task' = raise_out([task EXCEPT ![i].dns = "raised",
                                         ![i].resolves = task[i].resolves + 1], i)
       \/ \E domain_ip \in IPs \cup {None} :
            LET branch == classify(domain_ip, server_ip)
                t == [task EXCEPT ![i].dns = IF domain_ip = None THEN "gaierror" ELSE "ip",
                                  ![i].resolves = task[i].resolves + 1,
                                  ![i].probes = IF branch = "probe" THEN task[i].probes + 1
                                                ELSE task[i].probes]
            IN
            CASE branch = "probe" ->
                   \* save_file_and_upload is called
                   IF RootOf(i) # None /\ RootOf(i) \in ExistingRoots
                   THEN task' = [t EXCEPT ![i].pc = "write", ![i].ip = domain_ip,
                                             ![i].probed = TRUE]
                   ELSE task' = [t EXCEPT ![i].pc = "append", ![i].ip = domain_ip,
                                             ![i].probed = TRUE, ![i].res = "False",
                                             ![i].cls = "Mismatched"]
              [] OTHER ->
                   task' = [t EXCEPT ![i].pc = "append", ![i].ip = domain_ip,
                                     ![i].cls = branch]
    /\ UNCHANGED <<pc, exit_status, discovery, markers, lists, sampling, files, error_log>>

\* save_file_and_upload: open(file_path, "w") and file.write
Write(i) ==
    /\ pc = "verify"
    /\ task[i].pc = "write"
    /\ \/ \* the file is created and written
          /\ markers' = markers \cup {RootOf(i)}
          /\ task' = [task EXCEPT ![i].pc = "curl", ![i].wrote = TRUE]
       \/ \* the file is created but the write fails
          /\ markers' = markers \cup {RootOf(i)}
          /\ task' = [task EXCEPT ![i].pc = "except", ![i].wrote = TRUE]
       \/ \* open fails, nothing is created
          /\ markers' = markers
          /\ task' = [task EXCEPT ![i].pc = "except"]
    /\ UNCHANGED <<pc, exit_status, discovery, lists, sampling, files, error_log>>

\* save_file_and_upload: subprocess.run(curl -T file_path ...)
Curl(i) ==
    /\ pc = "verify"
    /\ task[i].pc = "curl"
    /\ \/ \* curl read the file and the transfer ended with exit code 0
          /\ RootOf(i) \in markers
          /\ task' = [task EXCEPT ![i].pc = "remove", ![i].rc = 0]
       \/ \* curl ended with a non-zero exit code
          task' = [task EXCEPT ![i].pc = "remove", ![i].rc = 1]
       \/ \* subprocess.run raises (no curl binary)
          task' = [task EXCEPT ![i].pc = "except"]
    /\ UNCHANGED <<pc, exit_status, discovery, markers, lists, sampling, files, error_log>>

\* what save_file_and_upload returns once the file is removed after curl
upload_result(rc) == IF rc = 0 THEN "True" ELSE "False"

\* save_file_and_upload: os.remove(file_path) after curl, then return
Remove(i) ==
    /\ pc = "verify"
    /\ task[i].pc = "remove"
    /\ \/ \* the file is removed
          /\ RootOf(i) \in markers
          /\ markers' = markers \ {RootOf(i)}
          /\ task' = [task EXCEPT ![i].pc = "append",
                                  ![i].res = upload_result(task[i].rc),
                                  ![i].cls = IF upload_result(task[i].rc) = "True"
                                             THEN "Healthy" ELSE "Mismatched"]
       \/ \* os.remove raises: the file is already gone, or it is there and
          \* cannot be removed
          /\ markers' = markers
          /\ task' = [task EXCEPT ![i].pc = "except",
                                  ![i].delfail = task[i].delfail \/ RootOf(i) \in markers]
    /\ UNCHANGED <<pc, exit_status, discovery, lists, sampling, files, error_log>>

\* save_file_and_upload: the except branch: remove the file if it exists,
\* return False
Except(i) ==
    /\ pc = "verify"
    /\ task[i].pc = "except"
    /\ IF RootOf(i) \in markers
       THEN \/ /\ markers' = markers \ {RootOf(i)}
               /\ task' = [task EXCEPT ![i].pc = "append", ![i].res = "False",
                                       ![i].cls = "Mismatched"]
            \/ \* os.remove raises inside the handler: the error leaves the task
               /\ markers' = markers
               /\ task' = raise_out([task EXCEPT ![i].delfail = TRUE], i)
       ELSE /\ markers' = markers
            /\ task' = [task EXCEPT ![i].pc = "append", ![i].res = "False",
                                    ![i].cls = "Mismatched"]
    /\ UNCHANGED <<pc, exit_status, discovery, lists, sampling, files, error_log>>

\* an append whose write lands on the slot another thread has just filled
list_append_lost(l, x) ==
    IF Len(l) > 0 THEN [l EXCEPT ![Len(l)] = x] ELSE <<x>>

\* list.append on a list shared by the worker threads: one indivisible step
\* that adds the element at the end
list_append(l, x) == Append(l, x)

\* check_single_domain: self.<category>_domains.append(domain)
AppendCategory(i) ==
    /\ pc = "verify"
    /\ task[i].pc = "append"
    /\ direct_domains' = IF task[i].cls = "Direct"
                         THEN list_append(direct_domains, domains[i]) ELSE direct_domains
    /\ healthy_domains' = IF task[i].cls = "Healthy"
                          THEN list_append(healthy_domains, domains[i]) ELSE healthy_domains
    /\ mismatched_domains' = IF task[i].cls = "Mismatched"
                             THEN list_append(mismatched_domains, domains[i])
                             ELSE mismatched_domains
    /\ no_ping_domains' = IF task[i].cls = "No Ping"
                          THEN list_append(no_ping_domains, domains[i]) ELSE no_ping_domains
    /\ task' = [task EXCEPT ![i].pc = "status"]
    /\ UNCHANGED <<pc, exit_status, discovery, markers, domain_statuses, sampling,
                   files, error_log>>

\* check_single_domain: self.domain_statuses.append((domain, cls, ip, None))
AppendStatus(i) ==
    /\ pc = "verify"
    /\ task[i].pc = "status"
    /\ domain_statuses' = list_append(domain_statuses,
                                      status_tuple(domains[i], task[i].cls, task[i].ip))
    /\ task' = [task EXCEPT ![i].pc = "done"]
    /\ UNCHANGED <<pc, exit_status, discovery, markers, direct_domains, healthy_domains,
                   mismatched_domains, no_ping_domains, sampling, files, error_log>>

\* future.result() outside a try: the first error leaves check_domains and main
future_results_propagate(raised) ==
    IF raised = {}
    THEN [pc |-> "sample", exit_status |-> -1, logged |-> {}]
    ELSE [pc |-> "exit", exit_status |-> 1, logged |-> {}]

\* check_domains: what the loop over future.result() does with the futures
\* that raised: each error is caught and logged, the method returns
future_results(raised) ==
    [pc |-> "sample", exit_status |-> -1,
     logged |-> {<<"Error checking domain", domains[i]>> : i \in raised}]

\* a pool that is left without waiting for its futures
futures_not_joined == TRUE

\* the with-block of the executor and the loop over future.result() end only
\* when every future has finished
futures_joined == \A i \in DOMAIN task : Finished(i)

\* check_domains returns once every future has finished
CheckDomainsReturn ==
    /\ pc = "verify"
    /\ futures_joined
    /\ LET r == future_results({i \in DOMAIN task : task[i].pc = "raised"}) IN
       /\ pc' = r.pc
       /\ exit_status' = r.exit_status
       /\ error_log' = error_log \cup r.logged
    /\ UNCHANGED <<discovery, task, markers, lists, sampling, files>>

\* ------------------------------------------------------ HTTP status sampling
\* what a GET of http://{domain} can produce: a transport error, or a response
\* with a status code and a body that does or does not link autoindex.css
Responses ==
    {[error |-> TRUE, status |-> 0, autoindex |-> FALSE]} \cup
    {[error |-> FALSE, status |-> s, autoindex |-> b] : s \in StatusCodes, b \in BOOLEAN}

\* check_status: the label for a response
check_status(resp) ==
    IF resp.error THEN None
    ELSE IF resp.status = 200
         THEN IF resp.autoindex THEN "index of" ELSE ToString(resp.status)
         ELSE ToString(resp.status)

\* a request that has not completed yet
NoResponse == [error |-> FALSE, status |-> 0, autoindex |-> FALSE]

\* check_domain_statuses: the task list is built over direct + healthy
StartSampling ==
    /\ pc = "sample"
    /\ tasks' = direct_domains \o healthy_domains
    /\ returned' = [i \in 1..(Len(direct_domains) + Len(healthy_domains)) |-> "pending"]
    /\ responses' = [i \in 1..(Len(direct_domains) + Len(healthy_domains)) |-> NoResponse]
    /\ results' = <<>>
    /\ pc' = "gather"
    /\ UNCHANGED <<exit_status, discovery, task, markers, lists, files, error_log>>

\* as_completed hands over the next finished request, its label is appended
SampleComplete(i) ==
    /\ pc = "gather"
    /\ i \in DOMAIN returned
    /\ returned[i] = "pending"
    /\ \E resp \in Responses :
         /\ returned' = [returned EXCEPT ![i] = check_status(resp)]
         /\ responses' = [responses EXCEPT ![i] = resp]
         /\ results' = Append(results, check_status(resp))
    /\ UNCHANGED <<pc, exit_status, discovery, task, markers, lists, tasks, files, error_log>>

\* set_status with the label stored one field too early
set_status_clobber(statuses, domain, status) ==
    [i \in 1..Len(statuses) |->
        IF statuses[i][1] = domain
        THEN <<statuses[i][1], statuses[i][2], status, statuses[i][4]>>
        ELSE statuses[i]]

\* one pass of the inner loop: every record of the domain takes the status
set_status(statuses, domain, status) ==
    [i \in 1..Len(statuses) |->
        IF statuses[i][1] = domain
        THEN <<statuses[i][1], statuses[i][2], statuses[i][3], status>>
        ELSE statuses[i]]

\* the loop over zip(direct + healthy, results), from pair k on
RECURSIVE merge_statuses(_, _, _, _)
merge_statuses(statuses, doms, res, k) ==
    IF k > Len(doms) \/ k > Len(res) THEN statuses
    ELSE merge_statuses(set_status(statuses, doms[k], res[k]), doms, res, k + 1)

\* check_domain_statuses: all requests are in, the labels are merged
Merge ==
    /\ pc = "gather"
    /\ Len(results) = Len(tasks)
    /\ domain_statuses' = merge_statuses(domain_statuses,
                                         direct_domains \o healthy_domains, results, 1)
    /\ pc' = "save"
    /\ UNCHANGED <<exit_status, discovery, task, markers, direct_domains, healthy_domains,
                   mismatched_domains, no_ping_domains, sampling, files, error_log>>

\* ------------------------------------------------------------- save_results
\* save_domains_to_file: the lines written, one per element of the list
save_domains_to_file(doms) == [state |-> "written", content |-> doms]

\* what save_results hands to each artifact
artifact_input(f) ==
    CASE f = "mismatched_domains.txt" -> mismatched_domains
      [] f = "healthy_domains.txt" -> healthy_domains
      [] f = "direct_domains.txt" -> direct_domains
      [] f = "no_ping_domains.txt" -> no_ping_domains
      [] f = "combined_domains.txt" -> direct_domains \o healthy_domains
      [] OTHER -> domain_statuses

\* the sets of artifacts whose write raises in one save_results: none, any
\* single one, or all of them (output directory missing)
WriteFailures == {{}} \cup {{f} : f \in Artifacts} \cup {Artifacts}

\* the order in which save_results writes the artifacts
ArtifactOrder == <<"mismatched_domains.txt", "healthy_domains.txt", "direct_domains.txt",
                   "no_ping_domains.txt", "combined_domains.txt", "domain_report.html">>

Position(f) == CHOOSE k \in 1..Len(ArtifactOrder) : ArtifactOrder[k] = f

\* a failed write that leaves save_results: later artifacts are not attempted
attempted_until_failure(f, failing) ==
    \A g \in failing : Position(g) >= Position(f)

\* every write sits in its own try/except (save_domains_to_file, the report
\* block): an artifact is attempted whatever happened to the others
attempted(f, failing) == TRUE

\* save_results: five save_domains_to_file calls and the report, each inside
\* its own try/except; the artifacts of `failing` raise while being written
SaveResults ==
    /\ pc = "save"
    /\ \E failing \in WriteFailures :
         /\ files' = [f \in Artifacts |->
                        IF ~attempted(f, failing) THEN files[f]
                        ELSE IF f \in failing THEN [state |-> "failed", content |-> <<>>]
                        ELSE save_domains_to_file(artifact_input(f))]
         /\ error_log' = error_log \cup {<<"Error saving", f>> : f \in failing}
    /\ pc' = "summary"
    /\ UNCHANGED <<exit_status, discovery, task, markers, lists, sampling>>

\* main(): the summary is printed and main returns
MainReturn ==
    /\ pc = "summary"
    /\ pc' = "exit"
    /\ exit_status' = 0
    /\ UNCHANGED <<discovery, task, markers, lists, sampling, files, error_log>>

Next ==
    \/ Construct
    \/ MainCheck
    \/ \E i \in DOMAIN task : Resolve(i)
    \/ \E i \in DOMAIN task : Write(i)
    \/ \E i \in DOMAIN task : Curl(i)
    \/ \E i \in DOMAIN task : Remove(i)
    \/ \E i \in DOMAIN task : Except(i)
    \/ \E i \in DOMAIN task : AppendCategory(i)
    \/ \E i \in DOMAIN task : AppendStatus(i)
    \/ CheckDomainsReturn
    \/ StartSampling
    \/ \E i \in DOMAIN returned : SampleComplete(i)
    \/ Merge
    \/ SaveResults
    \/ MainReturn

Spec == Init /\ [][Next]_vars

\* every thread, request and the main coroutine eventually take their next step
FairSpec == Spec /\ WF_vars(Next)

\* the run up to the return of check_domains
NextVerify ==
    \/ Construct
    \/ MainCheck
    \/ \E i \in DOMAIN task : Resolve(i)
    \/ \E i \in DOMAIN task : Write(i)
    \/ \E i \in DOMAIN task : Curl(i)
    \/ \E i \in DOMAIN task : Remove(i)
    \/ \E i \in DOMAIN task : Except(i)
    \/ \E i \in DOMAIN task : AppendCategory(i)
    \/ \E i \in DOMAIN task : AppendStatus(i)
    \/ CheckDomainsReturn

VerifySpec == Init /\ [][NextVerify]_vars

\* ===================================================================== claims
Classes == {"Direct", "Healthy", "Mismatched", "No Ping"}

\* check_domains has returned
CheckDomainsReturned ==
    \/ pc \in {"sample", "gather", "save", "summary"}
    \/ pc = "exit" /\ Len(task) > 0

\* check_domain_statuses has finished
SamplingFinished ==
    \/ pc \in {"save", "summary"}
    \/ pc = "exit" /\ Len(task) > 0 /\ exit_status = 0

\* domain_statuses holds a record of the domain with the class and address
HasOutcome(domain, cls, ip) ==
    \E k \in 1..Len(domain_statuses) :
        /\ domain_statuses[k][1] = domain
        /\ domain_statuses[k][2] = cls
        /\ domain_statuses[k][3] = ip

AllCategories ==
    direct_domains \o healthy_domains \o mismatched_domains \o no_ping_domains

\* C1: once check_domains has returned, the four category lists are pairwise
\* disjoint, every discovered domain is in one of them and no name occurs more
\* than once across them.
C1_Partition ==
    CheckDomainsReturned =>
        /\ \A d \in Range(AllCategories) : Count(AllCategories, d) = 1
        /\ \A i \in 1..Len(domains) : domains[i] \in Range(AllCategories)

\* C2: once check_domain_statuses has finished, the httpStatus of every Direct
\* or Healthy outcome is a label check_status returned for that same domain.
C2_MergeByName ==
    SamplingFinished =>
        \A k \in 1..Len(domain_statuses) :
            domain_statuses[k][2] \in {"Direct", "Healthy"} =>
                \E i \in 1..Len(tasks) :
                    /\ tasks[i] = domain_statuses[k][1]
                    /\ returned[i] = domain_statuses[k][4]

\* C3: a task whose name resolved to the server address classifies the domain
\* Direct with that address, never calls save_file_and_upload, never writes a
\* marker file and never raises.
C3_DirectNoProbe ==
    \A i \in DOMAIN task :
        (task[i].dns = "ip" /\ task[i].ip = server_ip) =>
            /\ task[i].cls = "Direct"
            /\ ~task[i].probed
            /\ ~task[i].wrote
            /\ task[i].pc \in {"append", "status", "done"}
            /\ task[i].pc \in {"status", "done"} => domains[i] \in Range(direct_domains)
            /\ task[i].pc = "done" => HasOutcome(domains[i], "Direct", server_ip)

C3_Witness ==
    \E i \in DOMAIN task :
        /\ task[i].pc = "done"
        /\ task[i].ip = server_ip
        /\ HasOutcome(domains[i], "Direct", server_ip)
        /\ \E j \in DOMAIN task : task[j].probed /\ task[j].wrote

\* C4: once check_domains has returned, every task whose name resolved to
\* another address than the server's has left a Healthy outcome if its probe
\* returned true and a Mismatched outcome otherwise, with the resolved address.
C4_ProbeDecides ==
    CheckDomainsReturned =>
        \A i \in DOMAIN task :
            (task[i].dns = "ip" /\ task[i].ip # server_ip) =>
                IF task[i].res = "True"
                THEN task[i].cls = "Healthy" /\ HasOutcome(domains[i], "Healthy", task[i].ip)
                ELSE task[i].cls = "Mismatched"
                     /\ HasOutcome(domains[i], "Mismatched", task[i].ip)

C6_CombinedIsUnion ==
    files["combined_domains.txt"].state = "written" =>
        LET c == files["combined_domains.txt"].content IN
        /\ Range(c) = Range(direct_domains) \cup Range(healthy_domains)
        /\ \A d \in Range(c) : Count(c, d) = 1
        /\ Range(c) \cap (Range(mismatched_domains) \cup Range(no_ping_domains)) = {}

\* a probe of the document root is between the creation of its file and its exit
ProbeInFlight(r) ==
    \E i \in DOMAIN task : task[i].pc \in {"curl", "remove", "except"} /\ RootOf(i) = r

\* C7: whenever no probe is in flight in a document root (every probe that
\* created mismatch.txt there has returned or raised), the root holds no
\* mismatch.txt, whatever the write, the transfer and the delete steps did.
C7_NoMarkerLeft ==
    \A r \in Roots : ~ProbeInFlight(r) => r \notin markers

\* some task has raised out of check_single_domain
SomeTaskRaised == \E i \in DOMAIN task : task[i].pc = "raised"

\* every task has finished and each one that did not raise left its outcome
OthersClassified ==
    \A i \in DOMAIN task :
        /\ Finished(i)
        /\ task[i].pc = "done" =>
              /\ task[i].cls \in Classes
              /\ domains[i] \in Range(AllCategories)
              /\ \E k \in 1..Len(domain_statuses) :
                    domain_statuses[k][1] = domains[i] /\ domain_statuses[k][2] = task[i].cls

\* save_results has attempted every artifact
AllArtifactsAttempted == \A f \in Artifacts : files[f].state \in {"written", "failed"}

\* C8: an error raised inside a task never leaves check_domains (the process
\* does not end with a failure status, check_domains returns into the sampling
\* phase with the error logged and every other task classified), and a run in
\* which a task raised goes on through sampling and save_results to its end.
C8_ErrorIsolated ==
    /\ [](Len(task) > 0 => exit_status # 1)
    /\ []((SomeTaskRaised /\ CheckDomainsReturned) =>
            /\ OthersClassified
            /\ \A i \in DOMAIN task :
                  task[i].pc = "raised" => <<"Error checking domain", domains[i]>> \in error_log)
    /\ (SomeTaskRaised ~>
            (pc = "exit" /\ exit_status = 0 /\ OthersClassified /\ AllArtifactsAttempted
                /\ Len(results) = Len(tasks)))

C8_Witness ==
    /\ pc = "exit"
    /\ \E i, j \in DOMAIN task :
          /\ task[i].pc = "raised"
          /\ task[j].pc = "done"
          /\ task[j].cls = "Healthy"
    /\ AllArtifactsAttempted

\* C9: at the end of the run, a domain whose task raised has exactly one record
\* in domain_statuses, and that record carries a classification.
C9_RaisedAbsorbed ==
    (pc = "exit" /\ Len(task) > 0) =>
        \A i \in DOMAIN task :
            task[i].pc = "raised" =>
                /\ Cardinality({k \in 1..Len(domain_statuses) :
                                   domain_statuses[k][1] = domains[i]}) = 1
                /\ \E k \in 1..Len(domain_statuses) :
                      /\ domain_statuses[k][1] = domains[i]
                      /\ domain_statuses[k][2] \in Classes

\* C10: the process ends with a failure status exactly when discovery yielded
\* no domain.
C10_ExitStatus ==
    pc = "exit" => ((exit_status # 0) <=> (domain_paths = <<>>))

\* the sampling phase has built its task list
SamplingStarted ==
    \/ pc \in {"gather", "save", "summary"}
    \/ pc = "exit" /\ Len(task) > 0 /\ exit_status = 0

\* C11: check_status is only called for domains classified Direct or Healthy;
\* at every point of the run a Mismatched or "No Ping" record of
\* domain_statuses has no httpStatus, and the domain of such a record is not
\* among the sampled domains.
C11_OnlyDirectHealthySampled ==
    /\ SamplingStarted =>
          \A i \in 1..Len(tasks) :
              \E k \in 1..Len(domain_statuses) :
                  /\ domain_statuses[k][1] = tasks[i]
                  /\ domain_statuses[k][2] \in {"Direct", "Healthy"}
    /\ \A k \in 1..Len(domain_statuses) :
          domain_statuses[k][2] \in {"Mismatched", "No Ping"} =>
              /\ domain_statuses[k][4] = None
              /\ domain_statuses[k][1] \notin Range(tasks)

\* the classification check_single_domain gives entry i when it runs alone
\* with the answers the entry got: its resolution, its document root and the
\* exit code of its transfer
OwnClassification(i) ==
    CASE task[i].dns = "gaierror" -> "No Ping"
      [] task[i].dns = "ip" /\ task[i].ip = server_ip -> "Direct"
      [] task[i].dns = "ip" /\ task[i].ip # server_ip /\ task[i].rc = 0 -> "Healthy"
      [] OTHER -> "Mismatched"

\* C12: the classification of a domain is decided by its own resolution
\* result, its own document root and its own transfer result alone, whatever
\* the other tasks do (every os.remove of the task that found the file
\* succeeded).
C12_OwnInputsDecide ==
    \A i \in DOMAIN task :
        (task[i].pc = "done" /\ ~task[i].delfail) => task[i].cls = OwnClassification(i)

\* task i is inside save_file_and_upload, working in its document root
InProbe(i) == task[i].pc \in {"write", "curl", "remove", "except"}

\* C13: no two probes are in flight at the same time in one document root.
C13_OneProbePerRoot ==
    \A i, j \in DOMAIN task :
        (i # j /\ InProbe(i) /\ InProbe(j)) => RootOf(i) # RootOf(j)

\* C14: no sampling request is made, and the list of sampled domains is not
\* built, before every check_single_domain task has finished; the sampled
\* domains are exactly the Direct and Healthy domains of the run.
C14_SamplingAfterJoin ==
    /\ (pc = "sample" \/ SamplingStarted) => \A i \in DOMAIN task : Finished(i)
    /\ (\E i \in DOMAIN returned : returned[i] # "pending") =>
          \A i \in DOMAIN task : Finished(i)
    /\ SamplingStarted =>
          /\ tasks = direct_domains \o healthy_domains
          /\ Range(tasks) = {domain_statuses[k][1] : k \in
                                {n \in 1..Len(domain_statuses) :
                                    domain_statuses[n][2] \in {"Direct", "Healthy"}}}
          /\ \A i \in DOMAIN task :
                (task[i].pc = "done" /\ task[i].cls \in {"Direct", "Healthy"}) =>
                    domains[i] \in Range(tasks)

C14_Witness ==
    /\ pc = "gather"
    /\ \E i \in DOMAIN returned : returned[i] # "pending"
    /\ \E i, j \in DOMAIN task :
          /\ task[i].cls = "Direct" /\ task[i].pc = "done"
          /\ task[j].cls = "Healthy" /\ task[j].pc = "done"
    /\ Len(tasks) = 2

\* a step taken while check_domain_statuses runs keeps all but httpStatus
SamplingFrameStep ==
    pc \in {"sample", "gather"} =>
        /\ direct_domains' = direct_domains
        /\ healthy_domains' = healthy_domains
        /\ mismatched_domains' = mismatched_domains
        /\ no_ping_domains' = no_ping_domains
        /\ Len(domain_statuses') = Len(domain_statuses)
        /\ \A k \in 1..Len(domain_statuses) :
              /\ domain_statuses'[k][1] = domain_statuses[k][1]
              /\ domain_statuses'[k][2] = domain_statuses[k][2]
              /\ domain_statuses'[k][3] = domain_statuses[k][3]

\* C15: a step of the sampling phase leaves the four category lists, the
\* number of records of domain_statuses and the domain, class and address of
\* every record as they were.
C15_SamplingFrame == [][SamplingFrameStep]_vars

C15_Witness ==
    /\ pc = "save"
    /\ Len(domain_statuses) = 2
    /\ \E k \in 1..Len(domain_statuses) :
          domain_statuses[k][2] = "Healthy" /\ domain_statuses[k][4] = "200"
    /\ \E k \in 1..Len(domain_statuses) :
          domain_statuses[k][2] = "Mismatched" /\ domain_statuses[k][4] = None

\* the domains of the entries k..Len(domains) whose task finished with the
\* class, in discovery order: what a run with one task at a time appends
RECURSIVE InDiscoveryOrder(_, _)
InDiscoveryOrder(classes, k) ==
    IF k > Len(domains) THEN <<>>
    ELSE IF task[k].pc = "done" /\ task[k].cls \in classes
         THEN <<domains[k]>> \o InDiscoveryOrder(classes, k + 1)
         ELSE InDiscoveryOrder(classes, k + 1)

\* C16: for a discovered list and per-domain results, the order of the names in
\* each written domain-name file and of the rows of the report is the same for
\* every interleaving of the tasks, that is the order the run with one task
\* at a time produces.
C16_DeterministicOrder ==
    /\ \A f \in {"direct_domains.txt", "healthy_domains.txt", "mismatched_domains.txt",
                 "no_ping_domains.txt"} :
          files[f].state = "written" =>
              files[f].content =
                  InDiscoveryOrder({CASE f = "direct_domains.txt" -> "Direct"
                                      [] f = "healthy_domains.txt" -> "Healthy"
                                      [] f = "mismatched_domains.txt" -> "Mismatched"
                                      [] OTHER -> "No Ping"}, 1)
    /\ files["combined_domains.txt"].state = "written" =>
          files["combined_domains.txt"].content =
              InDiscoveryOrder({"Direct"}, 1) \o InDiscoveryOrder({"Healthy"}, 1)
    /\ files["domain_report.html"].state = "written" =>
          [k \in 1..Len(files["domain_report.html"].content) |->
              files["domain_report.html"].content[k][1]] = InDiscoveryOrder(Classes, 1)

\* C17: for every response that is not a transport error, whatever its status
\* code, check_status returns "index of" when the body links autoindex.css and
\* the status code as a string otherwise; on a transport error it returns None.
C17_IndexOfAnyStatus ==
    \A i \in DOMAIN returned :
        returned[i] # "pending" =>
            returned[i] = IF responses[i].error THEN None
                          ELSE IF responses[i].autoindex THEN "index of"
                          ELSE ToString(responses[i].status)

\* save_file_and_upload of task i has returned
ProbeReturned(i) == task[i].probed /\ task[i].res \in {"True", "False"}

\* C18: save_file_and_upload returns True exactly when the document root
\* exists, the marker file was written and the transfer ended with success;
\* with a missing or absent document root it returns False and creates no
\* file; it leaves by an exception only after a failed removal, never on a
\* write or transfer failure alone.
C18_ProbeResult ==
    \A i \in DOMAIN task :
        /\ ProbeReturned(i) =>
              /\ (task[i].res = "True") <=>
                    (RootOf(i) \in ExistingRoots /\ task[i].wrote /\ task[i].rc = 0)
              /\ RootOf(i) \notin ExistingRoots => (task[i].res = "False" /\ ~task[i].wrote)
        /\ (task[i].probed /\ task[i].pc = "raised") => task[i].delfail

\* save_results has returned
SaveResultsReturned ==
    \/ pc = "summary"
    \/ pc = "exit" /\ Len(task) > 0 /\ exit_status = 0

\* C19: once save_results has returned, each of the six artifacts has been
\* attempted: one whose write raised is marked failed with the error logged,
\* every other one is written with its content, whatever happened to the
\* others; and no such failure ends the run with an error.
C19_ArtifactsIndependent ==
    /\ SaveResultsReturned =>
          \A f \in Artifacts :
              IF <<"Error saving", f>> \in error_log
              THEN files[f].state = "failed"
              ELSE files[f].state = "written" /\ files[f].content = artifact_input(f)
    /\ (\E f \in Artifacts : files[f].state # "absent") =>
          (exit_status # 1 /\ pc \in {"summary", "exit"})

C19_Witness ==
    /\ pc = "exit"
    /\ files["mismatched_domains.txt"].state = "failed"
    /\ \A f \in Artifacts \ {"mismatched_domains.txt"} : files[f].state = "written"
    /\ Len(files["domain_report.html"].content) = 2
    /\ files["combined_domains.txt"].content # <<>>

\* C20: every entry of the discovered list is resolved at most once and probed
\* at most once in a run; a task that failed to resolve, whose probe failed or
\* that raised is not run again.
C20_NoRetry ==
    \A i \in DOMAIN task :
        /\ task[i].resolves <= 1
        /\ task[i].probes <= 1
        /\ task[i].pc # "queued" => task[i].resolves = 1
        /\ task[i].probed <=> task[i].probes = 1
        /\ task[i].pc = "queued" => task[i].resolves = 0

C20_Witness ==
    /\ pc = "sample"
    /\ \E i, j \in DOMAIN task :
          /\ task[i].pc = "raised" /\ task[i].probes = 1 /\ task[i].resolves = 1
          /\ task[j].dns = "gaierror" /\ task[j].pc = "done" /\ task[j].resolves = 1

\* the names category list cls holds
CategoryList(cls) ==
    CASE cls = "Direct" -> direct_domains
      [] cls = "Healthy" -> healthy_domains
      [] cls = "Mismatched" -> mismatched_domains
      [] cls = "No Ping" -> no_ping_domains

\* the positions of domain_statuses that record the domain with class cls
OutcomesOf(domain, cls) ==
    {k \in 1..Len(domain_statuses) :
        domain_statuses[k][1] = domain /\ domain_statuses[k][2] = cls}

\* C21: once check_domains has returned, a domain is in the category list of
\* a class exactly when domain_statuses holds an outcome of that domain with
\* that class, and as many times, whatever the order in which the worker
\* threads appended to the shared lists.
C21_ListsAgree ==
    CheckDomainsReturned =>
        \A cls \in Classes : \A d \in Names :
            /\ d \in Range(CategoryList(cls)) <=> OutcomesOf(d, cls) # {}
            /\ Count(CategoryList(cls), d) = Cardinality(OutcomesOf(d, cls))

\* two Direct tasks whose appends interleaved: the outcome list holds them in
\* the opposite order of their category appends
C21_Witness ==
    /\ pc = "sample"
    /\ Len(task) = 2
    /\ task[1].pc = "done" /\ task[2].pc = "done"
    /\ direct_domains = <<domains[1], domains[2]>>
    /\ domains[1] # domains[2]
    /\ domain_statuses[1][1] = domains[2]
    /\ domain_statuses[2][1] = domains[1]

====
